---- MODULE Spec2Model ----
(***************************************************************************)
(* Model of photutils/aperture_funcs.py: the variance aggregator           *)
(* find_fluxvar, the single-aperture photometers do_circular_photometry    *)
(* and do_elliptical_photometry, and the annulus composer                  *)
(* do_annulus_photometry.                                                  *)
(*                                                                         *)
(* Numbers.  Pixel values, errors and gains are integers.  An overlap      *)
(* fraction is k/FracDen with k in 0..FracDen and is stored as k, so every *)
(* flux and variance is stored as FracDen times its value; signs, NaN-ness *)
(* and differences are unaffected by the common factor.  A float that may  *)
(* be NaN is a record [nan, v]; a float obtained from np.sqrt is a record  *)
(* [nan, rad] standing for the real square root of rad.  Floating-point    *)
(* rounding is not modelled.                                               *)
(***************************************************************************)
EXTENDS Integers, Sequences, FiniteSets, TLC

VARIABLES
    args,       \* the arguments of the top-level call (immutable inputs)
    pc,         \* position of the control flow
    frame,      \* locals of the single-aperture photometer call in progress
    annulus,    \* locals of do_annulus_photometry
    outcome,    \* how the top-level call ended: returned tuple or raised exception
    warned,     \* warnings.warn calls so far: the positions each one names
    overlaps,   \* calls of the overlap primitive so far, with their arguments
    fluxvars,   \* calls of find_fluxvar so far, with what each sampled and gave
    returns     \* photometer calls that returned so far: their parameters and result

vars == <<args, pc, frame, annulus, outcome, warned, overlaps, fluxvars, returns>>

-----------------------------------------------------------------------------
(* Bounds of the model *)

\* image width and height in pixels
Width == 2
Height == 2
\* number of positions of one call
NPositions == 2
\* denominator of the modelled overlap fractions
FracDen == 2

-----------------------------------------------------------------------------
(* Floats *)

NaN == [nan |-> TRUE, v |-> 0]
Fin(x) == [nan |-> FALSE, v |-> x]

\* np.isnan
isnan(x) == x.nan

\* float subtraction: NaN if either operand is NaN
Minus(a, b) == IF a.nan \/ b.nan THEN NaN ELSE Fin(a.v - b.v)

\* np.maximum(x, 0): propagates NaN
Maximum0(x) == IF x.nan THEN NaN ELSE Fin(IF x.v > 0 THEN x.v ELSE 0)

RootNaN == [nan |-> TRUE, rad |-> 0]
\* np.sqrt: NaN for NaN and for a negative argument
Sqrt(x) == IF x.nan \/ x.v < 0 THEN RootNaN ELSE [nan |-> FALSE, rad |-> x.v]
\* r ** 2 for r a result of np.sqrt
Squared(r) == IF r.nan THEN NaN ELSE Fin(r.rad)

\* np.sum of an array given as a function from cells to integers
RECURSIVE np_sum(_)
np_sum(a) ==
    IF DOMAIN a = {} THEN 0
    ELSE LET c == CHOOSE c \in DOMAIN a : TRUE
         IN  a[c] + np_sum([d \in (DOMAIN a) \ {c} |-> a[d]])

\* a / b (true division, from __future__ import division); the modelled gains
\* are positive and divide every modelled pixel value, so the quotient is exact
TrueDiv(a, b) == a \div b

-----------------------------------------------------------------------------
(* Arrays and windows *)

Rows == 0 .. Height - 1
Cols == 0 .. Width - 1

\* the cells (row, column) of the slice [jmin:jmax, imin:imax], relative to
\* its corner
Cells(imin, imax, jmin, jmax) == (0 .. jmax - jmin - 1) \X (0 .. imax - imin - 1)

\* a[jmin:jmax, imin:imax]
Slice(a, imin, imax, jmin, jmax) ==
    [c \in Cells(imin, imax, jmin, jmax) |-> a[jmin + c[1]][imin + c[2]]]

\* int((lo + hi) / 2 + 0.5): (lo + hi) / 2 is a true division, int truncates,
\* and lo + hi >= 0, so the value is floor((lo + hi + 1) / 2)
CenterIndex(lo, hi) == (lo + hi + 1) \div 2

\* an optional array argument: None, or an array
None == [none |-> TRUE, map |-> [j \in Rows |-> [i \in Cols |-> 0]]]
Some(a) == [none |-> FALSE, map |-> a]

-----------------------------------------------------------------------------
(* find_fluxvar: the variance of the flux of one position.  The result is   *)
(* a record: raised says that an index was out of range (IndexError), value *)
(* is the returned fluxvar, and sampled/row/col tell which pixel the        *)
(* aggregate policy read.                                                   *)

Returned(x) == [raised |-> FALSE, value |-> x, sampled |-> FALSE, row |-> 0, col |-> 0]

\* pixelwise_error = True
find_fluxvar_pixelwise(data, fraction, error, gain, imin, imax, jmin, jmax) ==
    LET err  == Slice(error.map, imin, imax, jmin, jmax)
        dat  == Slice(data, imin, imax, jmin, jmax)
        gn   == Slice(gain.map, imin, imax, jmin, jmax)
        subvariance == [c \in DOMAIN err |->
                          IF gain.none THEN err[c] * err[c]
                          ELSE err[c] * err[c] + TrueDiv(dat[c], gn[c])]
        total == np_sum([c \in DOMAIN err |-> subvariance[c] * fraction[c]])
    IN  Returned(IF total > 0 THEN total ELSE 0)

\* pixelwise_error = False
find_fluxvar_aggregate(fraction, error, flux, gain, imin, imax, jmin, jmax) ==
    LET row == CenterIndex(jmin, jmax)
        col == CenterIndex(imin, imax)
    IN  IF row \notin Rows \/ col \notin Cols
        THEN [raised |-> TRUE, value |-> 0, sampled |-> TRUE, row |-> row, col |-> col]
        ELSE LET local_error == error.map[row][col]
                 area    == local_error * local_error * np_sum(fraction)
                 clamped == IF area > 0 THEN area ELSE 0
                 fluxvar == IF gain.none THEN clamped
                            ELSE clamped + TrueDiv(flux, gain.map[row][col])
             IN  [raised |-> FALSE, value |-> fluxvar, sampled |-> TRUE,
                  row |-> row, col |-> col]

find_fluxvar(data, fraction, error, flux, gain, imin, imax, jmin, jmax, pixelwise_error) ==
    IF pixelwise_error
    THEN find_fluxvar_pixelwise(data, fraction, error, gain, imin, imax, jmin, jmax)
    ELSE find_fluxvar_aggregate(fraction, error, flux, gain, imin, imax, jmin, jmax)

-----------------------------------------------------------------------------
(* The single-aperture photometers.  do_circular_photometry and            *)
(* do_elliptical_photometry differ only in the overlap primitive they call *)
(* (shape) and in the geometry parameters they pass on (params).           *)

N == Len(args.ood_filter)

\* the positions selected by ood_filter
Flagged == {i \in 1 .. N : args.ood_filter[i]}

\* if np.sum(ood_filter):
AnyOutOfData == Flagged # {}

\* faulty variant of AllOutOfData: the count is compared with one too many
AllOutOfData_off_by_one == Cardinality(Flagged) = N + 1

\* if np.sum(ood_filter) == len(positions):
AllOutOfData == Cardinality(Flagged) = N

IdleFrame ==
    [target |-> "none", shape |-> "none", params |-> "none",
     flux |-> << >>, fluxvar |-> << >>, i |-> 0, use_exact |-> 0, subpixels |-> 0]

\* a call of the photometer of the given shape with the given geometry
\* parameters, whose result goes to target
Call(shape, params, target) ==
    [IdleFrame EXCEPT !.target = target, !.shape = shape, !.params = params]

\* faulty variant of ResolveMethod: 'center' does not reset subpixels to 1
ResolveMethod_center_keeps_subpixels(method, subpixels) ==
    IF method = "exact" THEN [use_exact |-> 1, subpixels |-> 1]
    ELSE [use_exact |-> 0, subpixels |-> subpixels]

\* if method == 'center' ... elif method == 'subpixel' ... else ...
ResolveMethod(method, subpixels) ==
    IF method = "center" THEN [use_exact |-> 0, subpixels |-> 1]
    ELSE IF method = "subpixel" THEN [use_exact |-> 0, subpixels |-> subpixels]
    ELSE [use_exact |-> 1, subpixels |-> 1]

\* the return statement of a photometer: the tuple goes to the top-level
\* caller or to the annulus composer's call site
Return(tuple) ==
    /\ returns' = Append(returns, [shape |-> frame.shape, params |-> frame.params,
                                   value |-> tuple])
    /\ frame' = IdleFrame
    /\ IF frame.target = "top"
       THEN /\ outcome' = [status |-> "returned", exc |-> "none", value |-> tuple]
            /\ pc' = "done"
            /\ UNCHANGED annulus
       ELSE /\ annulus' = [annulus EXCEPT !.pending = tuple]
            /\ pc' = "resume"
            /\ UNCHANGED outcome

\* an exception leaves every frame and ends the top-level call
Raise(exc) ==
    /\ outcome' = [status |-> "raised", exc |-> exc, value |-> << >>]
    /\ pc' = "done"
    /\ frame' = IdleFrame

\* from the first line to the method resolution
Prologue(shape) ==
    /\ pc = "call"
    /\ frame.shape = shape
    /\ LET flux == [i \in 1 .. N |-> IF i \in Flagged THEN NaN ELSE Fin(0)]
           fluxvar == IF args.error.none THEN << >> ELSE [i \in 1 .. N |-> Fin(0)]
           m == ResolveMethod(args.method, args.subpixels)
       IN  /\ warned' = IF AnyOutOfData THEN Append(warned, Flagged) ELSE warned
           /\ IF AnyOutOfData /\ AllOutOfData
              THEN Return(<<flux>>)
              ELSE /\ frame' = [frame EXCEPT !.flux = flux, !.fluxvar = fluxvar,
                                             !.i = 1, !.use_exact = m.use_exact,
                                             !.subpixels = m.subpixels]
                   /\ pc' = "loop"
                   /\ UNCHANGED <<annulus, outcome, returns>>
    /\ UNCHANGED <<args, overlaps, fluxvars>>

\* what the overlap primitive may return for a window: an array of the
\* window's shape with every cell in [0, 1] (stored times FracDen); here the
\* aperture covers the window fully, or all of it but a part of its first cell
OverlapGrids(cells) ==
    {[c \in cells |-> IF c = <<0, 0>> THEN k ELSE FracDen] : k \in {1, FracDen}}

\* one pass of the loop over the positions
Iteration(shape) ==
    /\ pc = "loop"
    /\ frame.shape = shape
    /\ frame.i <= N
    /\ LET i == frame.i
           e == args.extent[i]
       IN  IF isnan(frame.flux[i])
           THEN /\ frame' = [frame EXCEPT !.i = i + 1]
                /\ UNCHANGED <<pc, outcome, overlaps, fluxvars>>
           ELSE \E fraction \in OverlapGrids(Cells(e.x_min, e.x_max, e.y_min, e.y_max)) :
                  LET window == Slice(args.data, e.x_min, e.x_max, e.y_min, e.y_max)
                      flux_i == np_sum([c \in DOMAIN window |-> window[c] * fraction[c]])
                      fv == find_fluxvar(args.data, fraction, args.error, flux_i,
                                         args.gain, e.x_min, e.x_max, e.y_min, e.y_max,
                                         args.pixelwise_error)
                  IN  /\ overlaps' = Append(overlaps,
                             [shape |-> shape, params |-> frame.params, i |-> i,
                              use_exact |-> frame.use_exact,
                              subpixels |-> frame.subpixels,
                              fraction |-> fraction])
                      /\ IF args.error.none
                         THEN /\ frame' = [frame EXCEPT !.flux[i] = Fin(flux_i),
                                                        !.i = i + 1]
                              /\ UNCHANGED <<pc, outcome, fluxvars>>
                         ELSE /\ fluxvars' = Append(fluxvars,
                                     [params |-> frame.params, i |-> i, extent |-> e,
                                      flux |-> flux_i, result |-> fv])
                              /\ IF fv.raised
                                 THEN Raise("IndexError")
                                 ELSE /\ frame' = [frame EXCEPT
                                                     !.flux[i] = Fin(flux_i),
                                                     !.fluxvar[i] = Fin(fv.value),
                                                     !.i = i + 1]
                                      /\ UNCHANGED <<pc, outcome>>
    /\ UNCHANGED <<args, annulus, warned, returns>>

\* the two return statements after the loop
Epilogue(shape) ==
    /\ pc = "loop"
    /\ frame.shape = shape
    /\ frame.i > N
    /\ IF args.error.none
       THEN Return(<<frame.flux>>)
       ELSE Return(<<frame.flux, [i \in 1 .. N |-> Sqrt(frame.fluxvar[i])]>>)
    /\ UNCHANGED <<args, warned, overlaps, fluxvars>>

do_circular_photometry_prologue == Prologue("circular")
do_circular_photometry_iteration == Iteration("circular")
do_circular_photometry_epilogue == Epilogue("circular")

do_elliptical_photometry_prologue == Prologue("elliptical")
do_elliptical_photometry_iteration == Iteration("elliptical")
do_elliptical_photometry_epilogue == Epilogue("elliptical")

-----------------------------------------------------------------------------
(* The annulus composer do_annulus_photometry *)

\* elementwise a - b of two arrays
ArrayMinus(a, b) == [i \in 1 .. Len(a) |-> Minus(a[i], b[i])]

\* the replacement fields of the message '{0} mode is not supported for
\* annular photometry{1}' and the number of arguments given to format
ModeMessageFields == {0, 1}
ModeMessageArgs == 1

\* str.format: IndexError when a replacement field has no argument
Format(fields, nargs) ==
    IF \E f \in fields : f >= nargs THEN "IndexError" ELSE "formatted"

\* raise ValueError(message.format(mode)): the message is built first
RaiseUnsupportedMode ==
    IF Format(ModeMessageFields, ModeMessageArgs) = "IndexError"
    THEN Raise("IndexError")
    ELSE Raise("ValueError")

\* the order of the two photometer calls: outer first for 'circular',
\* inner first for 'elliptical'
CallOrder(mode) ==
    IF mode = "circular" THEN <<"outer", "inner">> ELSE <<"inner", "outer">>

\* the call site of the photometer for the outer or the inner aperture
CallSite(mode, which) ==
    IF which = "outer" THEN Call(mode, "outer_params", "flux_outer")
    ELSE Call(mode, "inner_params", "flux_inner")

NoLocals ==
    [todo |-> << >>, pending |-> << >>, flux_outer |-> << >>, flux_inner |-> << >>,
     fluxerr_o |-> << >>, fluxerr_i |-> << >>, fluxvar |-> << >>]

\* the dispatch on mode and the first photometer call
do_annulus_photometry_enter ==
    /\ pc = "entry"
    /\ IF args.mode \in {"circular", "elliptical"}
       THEN /\ frame' = CallSite(args.mode, CallOrder(args.mode)[1])
            /\ annulus' = [annulus EXCEPT !.todo = CallOrder(args.mode)]
            /\ pc' = "call"
            /\ UNCHANGED outcome
       ELSE /\ RaiseUnsupportedMode
            /\ UNCHANGED annulus
    /\ UNCHANGED <<args, warned, overlaps, fluxvars, returns>>

\* the assignment of the tuple a photometer call returned: one target when
\* error is None, two targets (tuple unpacking) otherwise
Assigned(which, tuple) ==
    IF args.error.none
    THEN IF which = "outer" THEN [annulus EXCEPT !.flux_outer = tuple]
         ELSE [annulus EXCEPT !.flux_inner = tuple]
    ELSE IF which = "outer"
         THEN [annulus EXCEPT !.flux_outer = tuple[1], !.fluxerr_o = tuple[2]]
         ELSE [annulus EXCEPT !.flux_inner = tuple[1], !.fluxerr_i = tuple[2]]

\* unpacking a tuple into two targets raises ValueError unless it has two items
Unpackable(tuple) == args.error.none \/ Len(tuple) = 2

\* fluxvar = np.maximum((fluxerr_o ** 2 - fluxerr_i ** 2), 0)
AnnulusFluxvar(fluxerr_o, fluxerr_i) ==
    [i \in 1 .. Len(fluxerr_o) |->
        Maximum0(Minus(Squared(fluxerr_o[i]), Squared(fluxerr_i[i])))]

\* faulty variant of AnnulusFlux: inner minus outer
AnnulusFlux_swapped(flux_outer, flux_inner) ==
    IF args.error.none THEN ArrayMinus(flux_inner[1], flux_outer[1])
    ELSE ArrayMinus(flux_inner, flux_outer)

\* flux = flux_outer[0] - flux_inner[0] when error is None, else
\* flux = flux_outer - flux_inner
AnnulusFlux(flux_outer, flux_inner) ==
    IF args.error.none THEN ArrayMinus(flux_outer[1], flux_inner[1])
    ELSE ArrayMinus(flux_outer, flux_inner)

\* the first photometer call returned: assign its result, make the second call
do_annulus_photometry_second_call ==
    /\ pc = "resume"
    /\ Len(annulus.todo) = 2
    /\ IF Unpackable(annulus.pending)
       THEN /\ annulus' = [Assigned(annulus.todo[1], annulus.pending)
                             EXCEPT !.todo = Tail(annulus.todo), !.pending = << >>]
            /\ frame' = CallSite(args.mode, annulus.todo[2])
            /\ pc' = "call"
            /\ UNCHANGED outcome
       ELSE /\ Raise("ValueError")
            /\ UNCHANGED annulus
    /\ UNCHANGED <<args, warned, overlaps, fluxvars, returns>>

\* the second photometer call returned: assign its result, combine, return
do_annulus_photometry_combine ==
    /\ pc = "resume"
    /\ Len(annulus.todo) = 1
    /\ IF Unpackable(annulus.pending)
       THEN LET a == Assigned(annulus.todo[1], annulus.pending)
                flux == AnnulusFlux(a.flux_outer, a.flux_inner)
                fluxvar == IF args.error.none THEN << >>
                           ELSE AnnulusFluxvar(a.fluxerr_o, a.fluxerr_i)
            IN  /\ annulus' = [a EXCEPT !.todo = << >>, !.pending = << >>,
                                        !.fluxvar = fluxvar]
                /\ outcome' = [status |-> "returned", exc |-> "none",
                               value |-> IF args.error.none THEN <<flux>>
                                         ELSE <<flux, [i \in 1 .. Len(fluxvar) |->
                                                         Sqrt(fluxvar[i])]>>]
                /\ pc' = "done"
                /\ UNCHANGED frame
       ELSE /\ Raise("ValueError")
            /\ UNCHANGED annulus
    /\ UNCHANGED <<args, warned, overlaps, fluxvars, returns>>

-----------------------------------------------------------------------------
(* The inputs of a call *)

\* an image whose pixels alternate between a and b
Board(a, b) == [j \in Rows |-> [i \in Cols |-> IF (i + j) % 2 = 0 THEN a ELSE b]]

\* pixel values: multiples of every gain, of both signs
DataValues == {-2, 2}
ErrorValues == {0, 1}
GainValues == {1, 2}

DataImages == {Board(a, -2) : a \in DataValues}
ErrorMaps == {None, Some(Board(0, 1))}
GainMaps == {None, Some(Board(1, 2))}

Methods == {"center", "subpixel", "exact"}
SubpixelCounts == {1, 5}

\* clipped, non-empty index ranges inside the image: the first pixel, the
\* last pixel and the whole image
ValidExtents ==
    {[x_min |-> 0, x_max |-> 1, y_min |-> 0, y_max |-> 1],
     [x_min |-> Width - 1, x_max |-> Width, y_min |-> Height - 1, y_max |-> Height],
     [x_min |-> 0, x_max |-> Width, y_min |-> 0, y_max |-> Height]}

\* the extent an out-of-data position carries is never read
NoExtent == [x_min |-> 0, x_max |-> 0, y_min |-> 0, y_max |-> 0]

ExtentBundles ==
    {b \in [ood_filter : [1 .. NPositions -> BOOLEAN],
            extent : [1 .. NPositions -> ValidExtents \cup {NoExtent}]] :
        \A i \in 1 .. NPositions : b.ood_filter[i] <=> (b.extent[i] = NoExtent)}

\* the function called and, for the annulus composer, its mode
EntryPoints ==
    {[entry |-> "do_circular_photometry", mode |-> "circular"],
     [entry |-> "do_elliptical_photometry", mode |-> "elliptical"]}
        \cup {[entry |-> "do_annulus_photometry", mode |-> m] :
                 m \in {"circular", "elliptical", "rectangular"}}

\* gain and pixelwise_error are read only when an error map is given
NoiseModels ==
    {[error |-> None, gain |-> None, pixelwise_error |-> TRUE]}
        \cup {[error |-> e, gain |-> g, pixelwise_error |-> p] :
                 e \in ErrorMaps \ {None}, g \in GainMaps, p \in BOOLEAN}

Init ==
    /\ \E ep \in EntryPoints, d \in DataImages, nm \in NoiseModels,
          m \in Methods, sp \in SubpixelCounts, b \in ExtentBundles :
          /\ args = [entry |-> ep.entry, mode |-> ep.mode, data |-> d,
                     error |-> nm.error, gain |-> nm.gain,
                     pixelwise_error |-> nm.pixelwise_error,
                     method |-> m, subpixels |-> sp,
                     ood_filter |-> b.ood_filter, extent |-> b.extent]
          /\ IF ep.entry = "do_annulus_photometry"
             THEN pc = "entry" /\ frame = IdleFrame
             ELSE pc = "call" /\ frame = Call(ep.mode, "params", "top")
    /\ annulus = NoLocals
    /\ outcome = [status |-> "running", exc |-> "none", value |-> << >>]
    /\ warned = << >>
    /\ overlaps = << >>
    /\ fluxvars = << >>
    /\ returns = << >>

Next ==
    \/ do_circular_photometry_prologue
    \/ do_circular_photometry_iteration
    \/ do_circular_photometry_epilogue
    \/ do_elliptical_photometry_prologue
    \/ do_elliptical_photometry_iteration
    \/ do_elliptical_photometry_epilogue
    \/ do_annulus_photometry_enter
    \/ do_annulus_photometry_second_call
    \/ do_annulus_photometry_combine

Spec == Init /\ [][Next]_vars

-----------------------------------------------------------------------------
(* Properties *)

\* the top-level call is one of the single-aperture photometers
Direct == args.entry \in {"do_circular_photometry", "do_elliptical_photometry"}
\* the top-level call is the annulus composer
Composer == args.entry = "do_annulus_photometry"
Supported == args.mode \in {"circular", "elliptical"}
Finished == pc = "done"
HasReturned == outcome.status = "returned"
Unflagged == (1 .. N) \ Flagged

\* sum over the clipped window of position i of data x overlap fraction
WindowFlux(i, fraction) ==
    LET e == args.extent[i]
    IN  np_sum([c \in Cells(e.x_min, e.x_max, e.y_min, e.y_max) |->
                  args.data[e.y_min + c[1]][e.x_min + c[2]] * fraction[c]])

\* the variance find_fluxvar aggregated for position i in the photometer call
\* made with the given parameters; 0, the initial value, when it was not called
Variance(params, i) ==
    LET ks == {k \in 1 .. Len(fluxvars) :
                 fluxvars[k].params = params /\ fluxvars[k].i = i}
    IN  IF ks = {} THEN 0 ELSE fluxvars[CHOOSE k \in ks : TRUE].result.value

\* C1: every variance is >= 0: each value find_fluxvar returns, under both
\* values of pixelwise_error, with and without gain and for every already
\* computed flux, and each variance the annulus composer computes before it
\* takes the square root.
C1_VarianceNonNegative ==
    /\ \A k \in 1 .. Len(fluxvars) :
          ~fluxvars[k].result.raised => fluxvars[k].result.value >= 0
    /\ \A i \in 1 .. Len(annulus.fluxvar) :
          ~isnan(annulus.fluxvar[i]) /\ annulus.fluxvar[i].v >= 0

\* C2: a single-aperture photometer called with N >= 1 positions that are all
\* flagged out-of-data returns a 1-tuple whose flux has length N and is NaN
\* everywhere, with or without an error map, and calls neither the overlap
\* primitive nor find_fluxvar.
C2_AllOutOfData ==
    (Direct /\ N >= 1 /\ Flagged = 1 .. N) =>
        /\ overlaps = << >>
        /\ fluxvars = << >>
        /\ Finished =>
              /\ HasReturned
              /\ Len(outcome.value) = 1
              /\ Len(outcome.value[1]) = N
              /\ \A i \in 1 .. N : isnan(outcome.value[1][i])

C2_Witness ==
    /\ Direct /\ N >= 1 /\ Flagged = 1 .. N
    /\ ~args.error.none
    /\ Finished /\ HasReturned

\* C3: a single-aperture photometer called with some but not all positions
\* flagged out-of-data emits a warning naming them and still returns; the
\* flux is NaN at every flagged position and, at every other position, finite
\* and equal to the sum over the clipped window of data x overlap fraction;
\* the overlap primitive is called exactly for the unflagged positions.
C3_PartialOutOfData ==
    (Direct /\ Flagged # {} /\ Unflagged # {} /\ Finished) =>
        /\ warned = <<Flagged>>
        /\ HasReturned
        /\ \A i \in Flagged : isnan(outcome.value[1][i])
        /\ {overlaps[k].i : k \in 1 .. Len(overlaps)} = Unflagged
        /\ Len(overlaps) = Cardinality(Unflagged)
        /\ \A k \in 1 .. Len(overlaps) :
              LET i == overlaps[k].i
              IN  /\ ~isnan(outcome.value[1][i])
                  /\ outcome.value[1][i].v = WindowFlux(i, overlaps[k].fraction)

\* C4: whenever the annulus composer returns, in either mode and with or
\* without an error map, its flux at every position is the flux returned by
\* the photometer call made with outer_params minus the flux returned by the
\* photometer call made with inner_params, never the other way round.
C4_AnnulusFlux ==
    (Composer /\ HasReturned) =>
        /\ Len(returns) = 2
        /\ Len(outcome.value[1]) = N
        /\ \E ko, ki \in 1 .. 2 :
              /\ returns[ko].params = "outer_params"
              /\ returns[ki].params = "inner_params"
              /\ returns[ko].shape = args.mode
              /\ returns[ki].shape = args.mode
              /\ \A i \in 1 .. N :
                    outcome.value[1][i] =
                        Minus(returns[ko].value[1][i], returns[ki].value[1][i])

C4_Witness ==
    /\ Composer /\ HasReturned
    /\ args.mode = "elliptical"
    /\ ~args.error.none
    /\ \E i \in 1 .. N : ~isnan(outcome.value[1][i]) /\ outcome.value[1][i].v # 0

\* C5: for a mode other than 'circular' and 'elliptical' the annulus composer
\* ends in the ValueError of its raise statement, calls no photometer and
\* returns nothing.
C5_UnsupportedMode ==
    (Composer /\ ~Supported /\ Finished) =>
        /\ outcome.status = "raised"
        /\ outcome.exc = "ValueError"
        /\ returns = << >>
        /\ overlaps = << >>

\* C6: for a supported mode and an input on which the single-aperture calls
\* return, the annulus composer returns too, a 1-tuple or a 2-tuple of
\* length-N sequences; when all positions are out-of-data, with an error map
\* or without, it returns the all-NaN flux alone.
C6_AnnulusShape ==
    (/\ Composer /\ Supported /\ Finished
     /\ \A k \in 1 .. Len(fluxvars) : ~fluxvars[k].result.raised) =>
        /\ HasReturned
        /\ Len(outcome.value) \in {1, 2}
        /\ \A t \in 1 .. Len(outcome.value) : Len(outcome.value[t]) = N
        /\ Flagged = 1 .. N =>
              /\ Len(outcome.value) = 1
              /\ \A i \in 1 .. N : isnan(outcome.value[1][i])

\* C7: in every result of a single-aperture photometer the flux and, when
\* returned, the flux error have length N, and at every position flagged
\* out-of-data the flux is NaN and the flux error, when returned, is NaN too.
C7_NaNMarksOutOfData ==
    (Direct /\ HasReturned) =>
        /\ \A t \in 1 .. Len(outcome.value) : Len(outcome.value[t]) = N
        /\ \A i \in Flagged :
              /\ isnan(outcome.value[1][i])
              /\ Len(outcome.value) = 2 => isnan(outcome.value[2][i])

\* C8: every call of the overlap primitive gets (use_exact, subpixels) =
\* (0, 1) for method 'center', (0, the caller's subpixels) for 'subpixel' and
\* (1, 1) for 'exact', the same pair for all positions of a call and for the
\* inner and the outer call of an annulus call.
C8_MethodResolution ==
    /\ \A k \in 1 .. Len(overlaps) :
          /\ args.method = "center" =>
                overlaps[k].use_exact = 0 /\ overlaps[k].subpixels = 1
          /\ args.method = "subpixel" =>
                overlaps[k].use_exact = 0 /\ overlaps[k].subpixels = args.subpixels
          /\ args.method = "exact" =>
                overlaps[k].use_exact = 1 /\ overlaps[k].subpixels = 1
    /\ \A k, l \in 1 .. Len(overlaps) :
          /\ overlaps[k].use_exact = overlaps[l].use_exact
          /\ overlaps[k].subpixels = overlaps[l].subpixels

C8_Witness ==
    /\ Composer /\ HasReturned
    /\ args.method = "center" /\ args.subpixels = 5
    /\ Len(overlaps) = 2 * N
    /\ \E k, l \in 1 .. Len(overlaps) :
          overlaps[k].params = "outer_params" /\ overlaps[l].params = "inner_params"

\* C9: when the annulus composer returns a 2-tuple, its flux error at every
\* position is sqrt(max(V_outer - V_inner, 0)) for the variances V_outer and
\* V_inner that find_fluxvar aggregated in the outer and the inner call, so
\* it is 0 wherever V_inner >= V_outer.
C9_AnnulusError ==
    (Composer /\ HasReturned /\ Len(outcome.value) = 2) =>
        \A i \in 1 .. N :
            outcome.value[2][i] =
                Sqrt(Maximum0(Fin(Variance("outer_params", i)
                                    - Variance("inner_params", i))))

\* C10: the pixel the aggregate policy of find_fluxvar samples lies inside
\* the clipped window, jmin <= row < jmax and imin <= col < imax, for every
\* non-empty window inside the image.
C10_SampleInsideWindow ==
    \A k \in 1 .. Len(fluxvars) :
        fluxvars[k].result.sampled =>
            /\ fluxvars[k].extent.y_min <= fluxvars[k].result.row
            /\ fluxvars[k].result.row < fluxvars[k].extent.y_max
            /\ fluxvars[k].extent.x_min <= fluxvars[k].result.col
            /\ fluxvars[k].result.col < fluxvars[k].extent.x_max

====
